---- MODULE Spec2Model ----
(***************************************************************************)
(* The conversation orchestrator of openclaw-voice                         *)
(* (src/src/services/conversation.ts) together with the parts of the       *)
(* transcription adapter (whisper.ts), the synthesis adapter (tts, at the  *)
(* end of gateway.ts) and the gateway client (gateway.ts) that it drives.  *)
(*                                                                         *)
(* JavaScript runs one event-loop task at a time.  Every action below is   *)
(* one task: a user call, a timer expiry, an adapter callback or the       *)
(* settlement of an awaited promise, run up to its next await.  What is    *)
(* awaited is kept in `tasks`; pending setTimeout handles in `timers`.     *)
(***************************************************************************)
EXTENDS Integers, Sequences, FiniteSets, Bags, TLC

VARIABLES
  phase,            \* conversation.ts:22  _phase
  activeListener,   \* conversation.ts:26  _activeListener (0 = null, else a session id)
  silenceTimer,     \* conversation.ts:27  _silenceTimer: the kind of the pending timer it refers to, or "none"
  lastPartialText,  \* conversation.ts:28  _lastPartialText
  waiting,          \* conversation.ts:32  _waitingForResponse
  timers,           \* pending setTimeout handles, counted by kind: guard, silence, response
  isRecording,      \* whisper.ts:18       _isRecording
  sessions,         \* native realtime transcriptions some handle refers to: id -> [state, fullText, finals, guard];
                    \*   guard is history: the 10 s guard armed for the session is pending and
                    \*   _silenceTimer refers to it ("held"), pending with its handle overwritten
                    \*   ("leaked"), or not pending ("none")
  orphaned,         \* a native transcription is capturing and no handle to it is left
  tasks,            \* awaited promises: a bag of [k, sid, aux]
  isSpeaking,       \* gateway.ts:266      _isSpeaking
  stopIdle,         \* history: stop() has set the phase to idle and start() was not called since
  outstanding,      \* history: chat.send calls dispatched since the waiting flag was last cleared
  lateOwed,         \* history: a response timer abandoned a turn, the phase went back to listening,
                    \*          and the gateway has not sent that turn's reply yet
  track,            \* history: the chat.send requests still awaited that were dispatched before
                    \*          the waiting flag was last cleared (oldSends), the pending response
                    \*          timers armed for the turn now outstanding (cur), and those armed for
                    \*          a turn whose reply has cleared the waiting flag since (ans)
  owed,             \* history: the user ChatMessages emitted so far minus the assistant
                    \*          ChatMessages emitted so far, counted up to MaxOwed
  ev,               \* history: the task that produced this state and what it emitted, in order
  ws,               \* gateway.ts:16  _ws (0 = null, else a socket id)
  config,           \* gateway.ts:17  _config (0 = null)
  reqId,            \* gateway.ts:18  _reqId
  pendingRequests,  \* gateway.ts:19  _pendingRequests: the ids registered
  reconnectTimer,   \* gateway.ts:22  _reconnectTimer is not null
  tickTimer,        \* gateway.ts:23  _tickTimer is not null
  isConnected,      \* gateway.ts:24  _isConnected
  connState,        \* appStore.ts:49 connectionState, as last given to onStateChange
  socks,            \* the WebSocket objects not yet closed and forgotten: id -> [state, challenged]
  reqs,             \* the requests send() accepted and nothing has settled yet: id -> method
  gtimers,          \* pending reconnect timeouts and running tick intervals, counted, and the
                    \* ids of the requests whose 30 s timeout is pending
  messages,         \* appStore.ts:57  messages (a ChatMessage is the number of the addMessage call)
  added,            \* history: the number of addMessage calls so far
  silenceThresholdMs \* conversation.ts:29  _silenceThresholdMs

\* The state of the gateway client.
gvars == <<ws, config, reqId, pendingRequests, reconnectTimer, tickTimer, isConnected,
           connState, socks, reqs, gtimers>>
\* The state of the orchestrator and of the two audio adapters.
cvars == <<phase, activeListener, silenceTimer, lastPartialText, waiting, timers,
           isRecording, sessions, orphaned, tasks, isSpeaking, stopIdle, outstanding, lateOwed,
           track, owed>>
\* The message history of the store and the silence threshold.
svars == <<messages, added, silenceThresholdMs>>
vars == <<cvars, ev, gvars, svars>>

(* ------------------------------ bounds -------------------------------- *)
MaxTimers == 2      \* setTimeout handles pending at once
MaxTasks == 2       \* promises awaited at once
MaxOutstanding == 2 \* cap of the history counter `outstanding`
MaxOwed == 2        \* cap of the history counter `owed`

(* ------------------------------ values -------------------------------- *)
Phases == {"idle", "listening", "processing", "speaking"}
\* The text alphabet: empty, whitespace only, and a word.
Texts == {"", " ", "hi"}
\* String.prototype.trim on the alphabet.
Trim(t) == IF t = " " THEN "" ELSE t

\* The smallest id of 1..max not in `used`, 0 when there is none.
FreshId(used, max) ==
  IF \E i \in 1..max : i \notin used
    THEN CHOOSE i \in 1..max : i \notin used /\ \A j \in 1..(i - 1) : j \in used
    ELSE 0
Put(f, k, v) == [i \in DOMAIN f \cup {k} |-> IF i = k THEN v ELSE f[i]]
Drop(f, k) == [i \in DOMAIN f \ {k} |-> f[i]]

\* Pending timers, counted by kind.
NoTimers == [guard |-> 0, silence |-> 0, response |-> 0]
TimerCount(ts) == ts.guard + ts.silence + ts.response

\* The bag of awaited promises.
AddTask(ts, t) == ts (+) SetToBag({t})
DelTask(ts, t) == ts (-) SetToBag({t})
NumSends(ts) == BagCardinality([t \in {x \in DOMAIN ts : x.k = "send"} |-> ts[t]])
Playing == [k |-> "speak", sid |-> 0, aux |-> "playing"]
Stopped == [k |-> "speak", sid |-> 0, aux |-> "stopped"]

\* A native session whose stop has resolved and that no handle or awaited
\* promise refers to any more is forgotten by the next task.
Referenced(sid) ==
  \/ activeListener = sid
  \/ \E t \in BagToSet(tasks) : t.sid = sid
LiveSessions ==
  [s \in {x \in DOMAIN sessions : sessions[x].state # "stopped" \/ Referenced(x)} |-> sessions[s]]

\* The program state a task starts from; `out` collects what the task emits.
Cur ==
  [phase |-> phase, activeListener |-> activeListener, silenceTimer |-> silenceTimer,
   lastPartialText |-> lastPartialText, waiting |-> waiting, timers |-> timers,
   isRecording |-> isRecording, sessions |-> LiveSessions, orphaned |-> orphaned, tasks |-> tasks,
   isSpeaking |-> isSpeaking, stopIdle |-> stopIdle, outstanding |-> outstanding,
   lateOwed |-> lateOwed, track |-> track, out |-> <<>>, ok |-> TRUE]

Emit(st, e) == [st EXCEPT !.out = Append(@, e)]

(* --------------------------- conversation.ts --------------------------- *)
\* The history of the guard timers: the sessions whose guard is `from` have
\* it `to` from now on.
guardOf(st, from, to) ==
  [st EXCEPT !.sessions = [s \in DOMAIN @ |->
                             IF @[s].guard = from THEN [@[s] EXCEPT !.guard = to] ELSE @[s]]]

setPhase(st, p) ==
  IF st.phase = p THEN st
  ELSE Emit([st EXCEPT !.phase = p], <<"phase", p>>)

\* setTimeout: one more pending timer of this kind; with `store` its handle
\* is assigned to _silenceTimer, and the timer the variable referred to stays
\* pending with no handle left to clear it.
setTimeout(st, kind, store) ==
  IF TimerCount(st.timers) >= MaxTimers THEN [st EXCEPT !.ok = FALSE]
  ELSE [(IF store THEN guardOf(st, "held", "leaked") ELSE st) EXCEPT
          !.timers[kind] = @ + 1,
          !.silenceTimer = IF store THEN kind ELSE @]

\* clearTimeout(_silenceTimer); _silenceTimer = null.  clearTimeout of a
\* handle whose timer has fired does nothing, and nothing else reads the
\* variable, so an expired handle is "none" here.
clearSilenceTimer(st) ==
  IF st.silenceTimer # "none"
    THEN [guardOf(st, "held", "none") EXCEPT
            !.timers[st.silenceTimer] = @ - 1, !.silenceTimer = "none"]
    ELSE st

resetSilenceTimer(st) ==
  LET st1 == clearSilenceTimer(st)
  IN IF Trim(st1.lastPartialText) # ""
       THEN setTimeout(st1, "silence", TRUE)
       ELSE st1

\* conversation.ts:182-188: the response timer; its handle is not kept.
armResponseTimer(st) == setTimeout(st, "response", FALSE)

\* What the caller of `await beginListening()` does when it resumes.
afterBegin(st, then) == IF then = "armResp" THEN armResponseTimer(st) ELSE st

\* beginListening up to `await Whisper.startListening(...)`, with
\* startListening up to `await _ctx.transcribeRealtime(...)`.
beginListening(st, then) ==
  LET st1 == [setPhase(st, "listening") EXCEPT !.lastPartialText = ""]
  IN IF st1.isRecording
       THEN \* 'Already recording' is thrown, caught at conversation.ts:121
            afterBegin(setPhase(Emit(st1, <<"capture.refused">>), "idle"), then)
       ELSE LET sid == FreshId(DOMAIN st1.sessions, MaxTasks + 1)
            IN IF sid = 0 \/ BagCardinality(st1.tasks) >= MaxTasks
                 THEN [st1 EXCEPT !.ok = FALSE]
                 ELSE Emit([st1 EXCEPT
                              !.isRecording = TRUE,
                              !.sessions = Put(@, sid, [state |-> "starting", fullText |-> "", finals |-> 0, guard |-> "none"]),
                              !.tasks = AddTask(@, [k |-> "capStart", sid |-> sid, aux |-> then])],
                           <<"capture.start">>)

(* ------------------------------ whisper.ts ----------------------------- *)
\* The handle's stop() up to `await stop()` (whisper.ts:132-135).
handleStop(st, sid, who) ==
  IF BagCardinality(st.tasks) >= MaxTasks THEN [st EXCEPT !.ok = FALSE]
  ELSE Emit([st EXCEPT
               !.isRecording = FALSE,
               !.sessions[sid].state = IF @ = "capturing" THEN "draining" ELSE @,
               !.tasks = AddTask(@, [k |-> "drain", sid |-> sid, aux |-> who])],
            <<"capture.stop">>)

\* The text the handle's stop() returns (whisper.ts:137):
\* fullText || result?.data?.result || ''
finalText(fullText, result) == IF fullText # "" THEN fullText ELSE result

(* ------------------------- tts (gateway.ts:258-334) -------------------- *)
\* Speech.stop(): every utterance given to the engine is stopped; each one's
\* onStopped callback follows.
SpeechStop(ts) ==
  IF BagIn(Playing, ts)
    THEN (ts (-) (Playing :> CopiesIn(Playing, ts))) (+) (Stopped :> CopiesIn(Playing, ts))
    ELSE ts

stopSpeaking(st) ==
  IF st.isSpeaking
    THEN Emit([st EXCEPT !.tasks = SpeechStop(@), !.isSpeaking = FALSE], <<"tts.stop">>)
    ELSE st

speak(st, text) ==
  LET st1 == IF st.isSpeaking THEN [st EXCEPT !.tasks = SpeechStop(@)] ELSE st
  IN IF BagCardinality(st1.tasks) >= MaxTasks THEN [st1 EXCEPT !.ok = FALSE]
     ELSE Emit([st1 EXCEPT !.isSpeaking = TRUE, !.tasks = AddTask(@, Playing)],
               <<"speak", text>>)

(* ----------------------------- gateway.ts ------------------------------ *)
\* sendMessage up to `await send(...)`: the chat.send request is awaited.
sendMessage(st, text) ==
  IF BagCardinality(st.tasks) >= MaxTasks THEN [st EXCEPT !.ok = FALSE]
  ELSE Emit([st EXCEPT !.tasks = AddTask(@, [k |-> "send", sid |-> 0, aux |-> text])],
            <<"chat.send", text>>)

(* ------------------------------ commit --------------------------------- *)
\* Speech.stop() has been called on an utterance whose onStopped callback
\* has not run yet.
StopCallbackPending == BagIn(Stopped, tasks)

\* The handle of session sid is held by _activeListener or by a suspended caller.
Held(st, sid) ==
  \/ st.activeListener = sid
  \/ \E t \in BagToSet(st.tasks) : t.sid = sid
\* A session that still captures and whose handle nobody holds can only
\* deliver partial results; such sessions are not told apart.
Orphans(st) == {x \in DOMAIN st.sessions : st.sessions[x].state # "stopped" /\ ~Held(st, x)}

\* The ChatMessages of role `role` in what a task emitted.
Said(out, role) ==
  Cardinality({i \in 1..Len(out) : out[i][1] = "message" /\ out[i][2] = role})

\* The history counter after a task that emitted `out`: at MaxOwed it stands
\* for "MaxOwed or more", so it never exceeds the true difference.
Owes(n, out) ==
  LET d == n + Said(out, "user") - Said(out, "assistant")
  IN IF d > MaxOwed THEN MaxOwed ELSE d

Commit(op, st) ==
  /\ st.ok
  /\ phase' = st.phase
  /\ activeListener' = st.activeListener
  /\ silenceTimer' = st.silenceTimer
  /\ lastPartialText' = st.lastPartialText
  /\ waiting' = st.waiting
  /\ timers' = st.timers
  /\ isRecording' = st.isRecording
  /\ sessions' = [s \in DOMAIN st.sessions \ Orphans(st) |-> st.sessions[s]]
  /\ orphaned' = (st.orphaned \/ Orphans(st) # {})
  /\ tasks' = st.tasks
  /\ isSpeaking' = st.isSpeaking
  /\ stopIdle' = st.stopIdle
  /\ outstanding' = st.outstanding
  /\ lateOwed' = st.lateOwed
  /\ track' = st.track
  /\ owed' = Owes(owed, st.out)
  /\ ev' = [op |-> op, out |-> st.out]
  /\ UNCHANGED <<gvars, svars>>

(* ------------------------------ handlers ------------------------------- *)
\* The waiting flag is cleared: no turn is outstanding any more.
clearWaiting(st) ==
  [st EXCEPT !.waiting = FALSE, !.outstanding = 0,
             !.track = [oldSends |-> NumSends(st.tasks), cur |-> 0, ans |-> @.ans]]

\* The waiting flag is cleared by a reply: the response timers of the turn
\* it answers are timers of an answered turn from now on.
replied(st) == [clearWaiting(st) EXCEPT !.track.ans = st.track.ans + st.track.cur]

start(st) ==
  IF st.phase # "idle" THEN st
  ELSE beginListening([st EXCEPT !.stopIdle = FALSE], "none")

\* stop() from `setPhase('idle')` on: here it returns to its caller.
stopReturns(st) ==
  Emit([setPhase(st, "idle") EXCEPT !.stopIdle = TRUE], <<"stop.returns">>)

\* stop() up to `await _activeListener.stop()`, or to its end.
stop(st) ==
  LET st1 == clearWaiting(stopSpeaking(clearSilenceTimer(st)))
  IN IF st1.activeListener # 0
       THEN handleStop(st1, st1.activeListener, "stop")
       ELSE stopReturns(st1)

\* stop() after `await _activeListener.stop()`.
stopResumed(st) == stopReturns([st EXCEPT !.activeListener = 0])

\* interrupt() without its test of the phase.
interruptInAnyPhase(st) == beginListening(stopSpeaking(st), "none")

interrupt(st) ==
  IF st.phase = "speaking"
    THEN beginListening(stopSpeaking(st), "none")
    ELSE st

\* The onPartialResult callback given to Whisper.startListening.
onPartialResult(st, text) ==
  resetSilenceTimer(Emit([st EXCEPT !.lastPartialText = text], <<"transcript", text, "partial">>))

\* beginListening after `await Whisper.startListening(...)` resolved.
beginListeningResumed(st, sid, then) ==
  LET st1 == setTimeout([st EXCEPT !.activeListener = sid], "guard", TRUE)
  IN afterBegin([st1 EXCEPT !.sessions[sid].guard = "held"], then)

\* beginListening after `await Whisper.startListening(...)` rejected.
beginListeningFailed(st, then) ==
  afterBegin(setPhase(Emit(st, <<"capture.failed">>), "idle"), then)

\* The callback of the 10 s timer of beginListening.
onGuardTimer(st) ==
  IF st.phase = "listening" /\ Trim(st.lastPartialText) = ""
    THEN resetSilenceTimer(st)
    ELSE st

\* onSilenceDetected up to `await _activeListener.stop()`.
onSilenceDetected(st) ==
  IF st.phase # "listening" \/ st.activeListener = 0 THEN st
  ELSE handleStop(st, st.activeListener, "silence")

\* onSilenceDetected after `await _activeListener.stop()`, up to
\* `await Gateway.sendMessage(text)` or `await beginListening()`.
onSilenceResumed(st, sid, result) ==
  LET st1 == [st EXCEPT !.activeListener = 0]
      text == Trim(result)
  IN IF text = "" THEN beginListening(st1, "none")
     ELSE LET st2 == Emit(Emit(st1, <<"transcript", text, "final">>), <<"message", "user", text>>)
              st3 == [setPhase(st2, "processing") EXCEPT
                        !.sessions[sid].finals = @ + 1,
                        !.waiting = TRUE,
                        !.outstanding = IF @ < MaxOutstanding THEN @ + 1 ELSE @]
          IN sendMessage(st3, text)

\* onSilenceDetected after `await Gateway.sendMessage(text)` resolved.
onSendResolved(st) == armResponseTimer(st)

\* The chat.send request that settled leaves the history: `old` if it was
\* dispatched before the waiting flag was last cleared.  A response timer
\* armed now (`armed`) for a request that is not old is the timer of the
\* turn outstanding.
sendSettled(st, old, armed) ==
  [st EXCEPT !.track.oldSends = IF old THEN @ - 1 ELSE @,
             !.track.cur = IF armed /\ ~old THEN @ + 1 ELSE @]
CanSettle(old) ==
  IF old THEN track.oldSends > 0 ELSE NumSends(tasks) > track.oldSends

\* onSilenceDetected after `await Gateway.sendMessage(text)` rejected.
onSendRejected(st) == beginListening(clearWaiting(Emit(st, <<"send.failed">>)), "armResp")

\* The callback of the 30 s timer of onSilenceDetected.
onResponseTimer(st) ==
  IF st.waiting /\ st.phase = "processing"
    THEN LET st1 == beginListening(clearWaiting(Emit(st, <<"response.timeout">>)), "none")
         IN [st1 EXCEPT !.lateOwed = @ \/ st1.phase = "listening"]
    ELSE st

\* handleAssistantReply with the phase change ahead of the message.
handleAssistantReplyPhaseFirst(st, text) ==
  speak(Emit(setPhase(st, "speaking"), <<"message", "assistant", text>>), text)

\* handleAssistantReply up to `await TTS.speak(...)`.
handleAssistantReply(st, text) ==
  speak(setPhase(Emit(st, <<"message", "assistant", text>>), "speaking"), text)

\* The handler of Gateway.onMessage without the test of the waiting flag.
onGatewayMessageUnchecked(st, text) ==
  handleAssistantReply(replied(st), text)

\* The handler init() gives to Gateway.onMessage.
onGatewayMessage(st, text) ==
  IF st.waiting THEN handleAssistantReply(replied(st), text) ELSE st

\* handleAssistantReply after `await TTS.speak(...)` settled.
handleAssistantReplyResumed(st) ==
  IF st.phase = "speaking" THEN beginListening(st, "none") ELSE st

\* A pending timer of this kind expires: the one _silenceTimer refers to
\* (`held`), or one whose handle was overwritten.
Expire(st, kind, held) ==
  [(IF held THEN guardOf(st, "held", "none") ELSE st) EXCEPT
     !.timers[kind] = @ - 1,
     !.silenceTimer = IF held THEN "none" ELSE @]

\* The sessions a leaked guard timer that expires can be the guard of: one
\* of the sessions known to have a leaked guard, or (0) a session that no
\* handle refers to any more.
LeakedGuardOwners ==
  LET known == {s \in DOMAIN LiveSessions : LiveSessions[s].guard = "leaked"}
      leaked == timers.guard - (IF silenceTimer = "guard" THEN 1 ELSE 0)
  IN known \cup (IF leaked > Cardinality(known) THEN {0} ELSE {})
CanExpire(kind, held) ==
  IF held THEN silenceTimer = kind
  ELSE timers[kind] > (IF silenceTimer = kind THEN 1 ELSE 0)

(* ------------------------------ actions -------------------------------- *)
Start ==
  /\ ~StopCallbackPending
  /\ Commit("start", start(Cur))

Stop ==
  /\ ~StopCallbackPending
  /\ Commit("stop", stop(Cur))

Interrupt ==
  /\ ~StopCallbackPending
  /\ Commit("interrupt", interrupt(Cur))

\* transcribeRealtime resolved: startListening subscribes and returns the handle.
StartListeningResolved ==
  /\ ~StopCallbackPending
  /\ \E t \in BagToSet(tasks) :
       /\ t.k = "capStart"
       /\ Commit("capture.started",
                 beginListeningResumed(
                   [Cur EXCEPT !.tasks = DelTask(@, t),
                               !.sessions[t.sid].state = "capturing"],
                   t.sid, t.aux))

\* transcribeRealtime rejected: _isRecording stays as startListening set it.
StartListeningRejected ==
  /\ ~StopCallbackPending
  /\ \E t \in BagToSet(tasks) :
       /\ t.k = "capStart"
       /\ Commit("capture.start.rejected",
                 beginListeningFailed(
                   [Cur EXCEPT !.tasks = DelTask(@, t),
                               !.sessions = Drop(@, t.sid)],
                   t.aux))

\* A realtime event with isCapturing and a result (whisper.ts:119-127).  Events
\* the engine emitted before its stop was requested can still be delivered
\* while the stop is awaited.
PartialResult ==
  /\ ~StopCallbackPending
  /\ \E text \in Texts \ {""} :
       \/ \E sid \in DOMAIN LiveSessions :
            /\ sessions[sid].state \in {"capturing", "draining"}
            /\ Commit("partial",
                      onPartialResult([Cur EXCEPT !.sessions[sid].fullText = text], text))
       \/ /\ orphaned
          /\ Commit("partial", onPartialResult(Cur, text))

GuardTimerFires ==
  /\ ~StopCallbackPending
  /\ \E held \in BOOLEAN, owner \in LeakedGuardOwners \cup {0} :
       /\ CanExpire("guard", held)
       /\ held => owner = 0
       /\ ~held => owner \in LeakedGuardOwners
       /\ LET st1 == Expire(Cur, "guard", held)
          IN Commit("guard.timer",
                    onGuardTimer(IF owner = 0 THEN st1
                                 ELSE [st1 EXCEPT !.sessions[owner].guard = "none"]))

SilenceTimerFires ==
  /\ ~StopCallbackPending
  /\ \E held \in BOOLEAN :
       /\ CanExpire("silence", held)
       /\ Commit("silence.timer", onSilenceDetected(Expire(Cur, "silence", held)))

\* The response timer that expires was armed for the turn outstanding
\* ("cur"), for a turn since answered ("ans"), or for another turn.
ResponseTimerFires ==
  /\ ~StopCallbackPending
  /\ CanExpire("response", FALSE)
  /\ \E of \in {"cur", "ans", "other"} :
       /\ CASE of = "cur" -> track.cur > 0
            [] of = "ans" -> track.ans > 0
            [] of = "other" -> timers.response > track.cur + track.ans
       /\ Commit("response.timer",
                 onResponseTimer([Expire(Cur, "response", FALSE) EXCEPT
                                    !.track.cur = IF of = "cur" THEN @ - 1 ELSE @,
                                    !.track.ans = IF of = "ans" THEN @ - 1 ELSE @]))

\* The engine's stop resolved for one caller of the handle's stop().
StopResolved ==
  /\ ~StopCallbackPending
  /\ \E t \in BagToSet(tasks), r \in Texts :
       /\ t.k = "drain"
       /\ LET st1 == [Cur EXCEPT !.tasks = DelTask(@, t), !.sessions[t.sid].state = "stopped"]
          IN IF t.aux = "silence"
               THEN Commit("silence.resumed",
                           onSilenceResumed(st1, t.sid, finalText(sessions[t.sid].fullText, r)))
               ELSE Commit("stop.resumed", stopResumed(st1))

\* The chat.send request got an ok response.
SendResolved ==
  /\ ~StopCallbackPending
  /\ \E t \in BagToSet(tasks), old \in BOOLEAN :
       /\ t.k = "send"
       /\ CanSettle(old)
       /\ Commit("send.resolved",
                 sendSettled(onSendResolved([Cur EXCEPT !.tasks = DelTask(@, t)]), old, TRUE))

\* The chat.send request was rejected: no open socket, an error response,
\* or the 30 s request timeout.
SendRejected ==
  /\ ~StopCallbackPending
  /\ \E t \in BagToSet(tasks), old \in BOOLEAN :
       /\ t.k = "send"
       /\ CanSettle(old)
       /\ Commit("send.rejected",
                 onSendRejected(sendSettled([Cur EXCEPT !.tasks = DelTask(@, t)], old, FALSE)))

\* The gateway client surfaces a chat event.  `late` marks the reply of a turn
\* that its response timer has already abandoned.
GatewayMessage ==
  /\ ~StopCallbackPending
  /\ \E text \in {"", "hi"}, late \in BOOLEAN :
       /\ late => lateOwed
       /\ Commit(IF late THEN "reply.late" ELSE "reply",
                 onGatewayMessage([Cur EXCEPT !.lateOwed = IF late THEN FALSE ELSE @], text))

\* onDone of the utterance.
SpeakDone ==
  /\ ~StopCallbackPending
  /\ BagIn(Playing, tasks)
  /\ Commit("speak.done",
            handleAssistantReplyResumed(
              [Cur EXCEPT !.tasks = DelTask(@, Playing), !.isSpeaking = FALSE]))

\* onError of the utterance: speak() rejects, handleAssistantReply catches.
SpeakError ==
  /\ ~StopCallbackPending
  /\ BagIn(Playing, tasks)
  /\ Commit("speak.error",
            handleAssistantReplyResumed(
              Emit([Cur EXCEPT !.tasks = DelTask(@, Playing), !.isSpeaking = FALSE],
                   <<"tts.error">>)))

\* onStopped of an utterance Speech.stop() was called on.  The engine
\* delivers it before any later event.
SpeakStopped ==
  /\ BagIn(Stopped, tasks)
  /\ Commit("speak.stopped",
            handleAssistantReplyResumed(
              [Cur EXCEPT !.tasks = DelTask(@, Stopped), !.isSpeaking = FALSE]))

Init ==
  /\ phase = "idle"
  /\ activeListener = 0
  /\ silenceTimer = "none"
  /\ lastPartialText = ""
  /\ waiting = FALSE
  /\ timers = NoTimers
  /\ isRecording = FALSE
  /\ sessions = <<>>
  /\ orphaned = FALSE
  /\ tasks = EmptyBag
  /\ isSpeaking = FALSE
  /\ stopIdle = FALSE
  /\ outstanding = 0
  /\ lateOwed = FALSE
  /\ track = [oldSends |-> 0, cur |-> 0, ans |-> 0]
  /\ owed = 0
  /\ ev = [op |-> "init", out |-> <<>>]
  /\ ws = 0
  /\ config = 0
  /\ reqId = 0
  /\ pendingRequests = {}
  /\ reconnectTimer = FALSE
  /\ tickTimer = FALSE
  /\ isConnected = FALSE
  /\ connState = "disconnected"
  /\ socks = <<>>
  /\ reqs = <<>>
  /\ gtimers = [reconnect |-> 0, tick |-> 0, request |-> {}]
  /\ messages = <<>>
  /\ added = 0
  /\ silenceThresholdMs = 1500

Next ==
  \/ Start
  \/ Stop
  \/ Interrupt
  \/ StartListeningResolved
  \/ StartListeningRejected
  \/ PartialResult
  \/ GuardTimerFires
  \/ SilenceTimerFires
  \/ ResponseTimerFires
  \/ StopResolved
  \/ SendResolved
  \/ SendRejected
  \/ GatewayMessage
  \/ SpeakDone
  \/ SpeakError
  \/ SpeakStopped

Spec == Init /\ [][Next]_vars

(* ------------------- the session torn down under a turn ---------------- *)
\* Gateway.disconnect() (gateway.ts:225-232) as the orchestrator sees it:
\* _pendingRequests.clear() drops the registration of every pending request
\* without settling it, and the request's own 30 s timeout then finds no
\* entry, so the promise a chat.send caller awaits never settles.
disconnectUnderTurn(st) ==
  [st EXCEPT !.tasks = [t \in {x \in DOMAIN @ : x.k # "send"} |-> @[t]],
             !.track.oldSends = 0]

Disconnect ==
  /\ ~StopCallbackPending
  /\ \E t \in BagToSet(tasks) : t.k = "send"
  /\ Commit("disconnect", disconnectUnderTurn(Cur))

NextSession ==
  \/ Next
  \/ Disconnect

\* Timers expire and awaited promises settle; what the user, the speaker and
\* the gateway do is up to them.
Fairness ==
  /\ WF_vars(StartListeningResolved \/ StartListeningRejected)
  /\ WF_vars(GuardTimerFires)
  /\ WF_vars(SilenceTimerFires)
  /\ WF_vars(ResponseTimerFires)
  /\ WF_vars(StopResolved)
  /\ WF_vars(SendResolved \/ SendRejected)
  /\ WF_vars(SpeakDone \/ SpeakError)
  /\ WF_vars(SpeakStopped)

SpecSession == Init /\ [][NextSession]_vars /\ Fairness

(* =============================== gateway.ts ============================ *)
(* The gateway client on its own: sockets open and close, frames arrive,   *)
(* timers expire, callers send.  The orchestrator stands still here.       *)
MaxReq == 3      \* request ids nextId() hands out
MaxSockets == 2  \* WebSocket objects alive at once

Methods == {"connect", "chat.subscribe", "tick", "chat.send"}
Configs == {1, 2}

\* The client state a task starts from; `out` collects what the task emits.
GCur ==
  [ws |-> ws, config |-> config, reqId |-> reqId, pendingRequests |-> pendingRequests,
   reconnectTimer |-> reconnectTimer, tickTimer |-> tickTimer, isConnected |-> isConnected,
   connState |-> connState, socks |-> socks, reqs |-> reqs, gtimers |-> gtimers,
   out |-> <<>>, ok |-> TRUE]

GCommit(op, g) ==
  /\ g.ok
  /\ ws' = g.ws
  /\ config' = g.config
  /\ reqId' = g.reqId
  /\ pendingRequests' = g.pendingRequests
  /\ reconnectTimer' = g.reconnectTimer
  /\ tickTimer' = g.tickTimer
  /\ isConnected' = g.isConnected
  /\ connState' = g.connState
  \* a closed socket that _ws no longer refers to is forgotten
  /\ socks' = [s \in {x \in DOMAIN g.socks : g.socks[x].state # "closed" \/ x = g.ws} |-> g.socks[s]]
  /\ reqs' = g.reqs
  /\ gtimers' = g.gtimers
  /\ ev' = [op |-> op, out |-> g.out]
  /\ UNCHANGED <<cvars, svars>>

\* _onStateChange?.(state)
onStateChange(g, state) ==
  Emit([g EXCEPT !.connState = state], <<"state", state>>)

\* _ws && _ws.readyState === WebSocket.OPEN
IsOpen(g) == g.ws # 0 /\ g.socks[g.ws].state = "open"

\* What the caller of send() does once the promise has settled, for the
\* callers that only look at a failure: the catch of doConnect (connect and
\* chat.subscribe), `.catch(() => {})` of the tick, the caller of sendMessage.
afterSend(g, method, how) ==
  IF how = "rejected" /\ method \in {"connect", "chat.subscribe"}
    THEN onStateChange(g, "error")
    ELSE g

\* send({id: nextId(), method}): rejected at once without an open socket, else
\* registered, written to the socket and guarded by a 30 s timeout.
send(g, method) ==
  IF g.reqId >= MaxReq THEN [g EXCEPT !.ok = FALSE]
  ELSE LET id == g.reqId + 1
           g1 == [g EXCEPT !.reqId = id]
       IN IF ~IsOpen(g1)
            THEN afterSend(Emit(g1, <<"refused", id, method>>), method, "rejected")
            ELSE Emit([g1 EXCEPT
                         !.pendingRequests = @ \cup {id},
                         !.reqs = Put(@, id, method),
                         !.gtimers.request = @ \cup {id}],
                      <<"frame", id, method, g1.socks[g1.ws].challenged>>)

\* doConnect after `await send(connect)` resolved (gateway.ts:143-167).
doConnectResumed(g) ==
  LET g1 == onStateChange([g EXCEPT !.isConnected = TRUE], "connected")
      g2 == [g1 EXCEPT !.gtimers.tick = IF g1.tickTimer THEN @ ELSE @ + 1,
                       !.tickTimer = TRUE]
  IN send(g2, "chat.subscribe")

\* pending.resolve / pending.reject of a registered request, with what its
\* awaiting caller does next.
settle(g, id, how) ==
  IF id \in DOMAIN g.reqs
    THEN LET m == g.reqs[id]
             g1 == Emit([g EXCEPT !.reqs = Drop(@, id)], <<"settle", id, how>>)
         IN IF m = "connect" /\ how = "resolved"
              THEN doConnectResumed(g1)
              ELSE afterSend(g1, m, how)
    ELSE \* the promise is settled already: resolve and reject do nothing more
         Emit(g, <<"settle", id, how>>)

\* handleFrame for a `res` frame (gateway.ts:58-69).
handleRes(g, id, ok) ==
  IF id \in g.pendingRequests
    THEN settle([g EXCEPT !.pendingRequests = @ \ {id}], id,
                IF ok THEN "resolved" ELSE "rejected")
    ELSE g

\* The 30 s timeout of send() without its look at the pending table.
requestTimeoutUnchecked(g, id) ==
  settle([g EXCEPT !.gtimers.request = @ \ {id}, !.pendingRequests = @ \ {id}], id, "rejected")

\* The callback of the 30 s timeout of send() (gateway.ts:40-45).
requestTimeout(g, id) ==
  LET g1 == [g EXCEPT !.gtimers.request = @ \ {id}]
  IN IF id \in g1.pendingRequests
       THEN settle([g1 EXCEPT !.pendingRequests = @ \ {id}], id, "rejected")
       ELSE g1

\* The payloads of a chat event: role, text and type may be missing.
Roles == {"assistant", "user", "undefined"}
PayloadTexts == {"", "hi", "yo", "undefined"}
PayloadTypes == {"message", "undefined"}
Payloads == [role : Roles, text : PayloadTexts, type : PayloadTypes]
Events == {"connect.challenge", "chat", "chat.reply", "chat.stream", "presence"}
\* A JavaScript string that counts as true.
Truthy(text) == text \notin {"", "undefined"}

\* The texts handleEvent gives to _onMessage, in order (gateway.ts:83-103).
Surfaced(event, payload) ==
  IF event = "chat"
    THEN (IF payload.role = "assistant" /\ Truthy(payload.text) THEN <<payload.text>> ELSE <<>>)
         \o (IF payload.type = "message" /\ payload.role = "assistant"
               THEN <<payload.text>> ELSE <<>>)
  ELSE IF event = "chat.reply"
    THEN (IF Truthy(payload.text) THEN <<payload.text>> ELSE <<>>)
  ELSE <<>>

\* doConnect up to `await send(connect)`.
doConnect(g) ==
  IF g.config = 0 THEN g ELSE send(g, "connect")

handleEvent(g, event, payload) ==
  IF event = "connect.challenge" THEN doConnect(g)
  ELSE LET texts == Surfaced(event, payload)
       IN [g EXCEPT !.out = @ \o [i \in 1..Len(texts) |-> <<"onMessage", texts[i]>>]]

\* A frame to stand for the connect.challenge event; its payload is the nonce.
Challenge == [role |-> "undefined", text |-> "undefined", type |-> "undefined"]

\* scheduleReconnect without its look at _reconnectTimer.
scheduleReconnectAlways(g) ==
  [g EXCEPT !.reconnectTimer = TRUE, !.gtimers.reconnect = @ + 1]

scheduleReconnect(g) ==
  IF g.reconnectTimer THEN g
  ELSE [g EXCEPT !.reconnectTimer = TRUE, !.gtimers.reconnect = @ + 1]

\* if (_tickTimer) { clearInterval(_tickTimer); _tickTimer = null; }
clearTick(g) ==
  IF g.tickTimer THEN [g EXCEPT !.gtimers.tick = @ - 1, !.tickTimer = FALSE] ELSE g

\* The state of a socket that is shutting down and whose close event is still
\* to come: one that was open can deliver frames until then ("closing"), one
\* that never opened cannot ("failed").
Shut(state) == IF state \in {"connecting", "failed"} THEN "failed" ELSE "closing"

\* if (_ws) { _ws.close(); _ws = null; }
closeWs(g) ==
  IF g.ws = 0 THEN g
  ELSE IF g.socks[g.ws].state = "closed"
    THEN [g EXCEPT !.socks = Drop(@, g.ws), !.ws = 0]
    ELSE [g EXCEPT !.socks[g.ws].state = Shut(@), !.ws = 0]

connect(g, c) ==
  LET g1 == closeWs(onStateChange([g EXCEPT !.config = c, !.isConnected = FALSE], "connecting"))
      sid == FreshId(DOMAIN g1.socks, MaxSockets)
  IN IF sid = 0 THEN [g1 EXCEPT !.ok = FALSE]
     ELSE Emit([g1 EXCEPT !.socks = Put(@, sid, [state |-> "connecting", challenged |-> FALSE]),
                          !.ws = sid],
               <<"connect", c>>)

\* ws.onclose (gateway.ts:216-222).
onclose(g) ==
  scheduleReconnect(onStateChange(clearTick([g EXCEPT !.isConnected = FALSE]), "disconnected"))

\* ws.onerror (gateway.ts:211-214).
onerror(g) == onStateChange(g, "error")

\* disconnect that leaves the tick interval running.
disconnectLeavingTick(g) ==
  LET g1 == [g EXCEPT !.config = 0, !.isConnected = FALSE]
      g2 == IF g1.reconnectTimer
              THEN [g1 EXCEPT !.gtimers.reconnect = @ - 1, !.reconnectTimer = FALSE]
              ELSE g1
  IN [closeWs(g2) EXCEPT !.pendingRequests = {}]

\* disconnect that also starts the request ids again from 1.
disconnectResettingIds(g) ==
  [closeWs(clearTick([g EXCEPT !.config = 0, !.isConnected = FALSE,
                               !.gtimers.reconnect = 0, !.reconnectTimer = FALSE]))
     EXCEPT !.pendingRequests = {}, !.reqId = 0]

disconnect(g) ==
  LET g1 == [g EXCEPT !.config = 0, !.isConnected = FALSE]
      g2 == IF g1.reconnectTimer
              THEN [g1 EXCEPT !.gtimers.reconnect = @ - 1, !.reconnectTimer = FALSE]
              ELSE g1
  IN [closeWs(clearTick(g2)) EXCEPT !.pendingRequests = {}]

\* The callback of the 5 s timeout of scheduleReconnect.
onReconnectTimer(g) ==
  LET g1 == [g EXCEPT !.gtimers.reconnect = @ - 1, !.reconnectTimer = FALSE]
  IN IF ~g1.isConnected /\ g1.config # 0 THEN connect(g1, g1.config) ELSE g1

\* The callback of the tick interval (gateway.ts:149-158).
onTick(g) == IF IsOpen(g) THEN send(g, "tick") ELSE g

(* ------------------------------ actions -------------------------------- *)
Connect == \E c \in Configs : GCommit("connect", connect(GCur, c))

DisconnectCall == GCommit("gw.disconnect", disconnect(GCur))

\* A caller, the orchestrator, calls sendMessage.
SendMessage == GCommit("sendMessage", send(GCur, "chat.send"))

\* ws.onopen: the client does nothing and waits for the challenge.
WsOpen ==
  \E s \in DOMAIN socks :
    /\ socks[s].state = "connecting"
    /\ GCommit("ws.open", [GCur EXCEPT !.socks[s].state = "open"])

\* The socket fails: onerror now, its close event later.
WsError ==
  \E s \in DOMAIN socks :
    /\ socks[s].state \in {"connecting", "open"}
    /\ GCommit("ws.error", onerror([GCur EXCEPT !.socks[s].state = Shut(@)]))

\* The close event of a socket: closed by the client, the server or the network.
WsClose ==
  \E s \in DOMAIN socks :
    /\ socks[s].state \in {"connecting", "open", "closing", "failed"}
    /\ GCommit("ws.close", onclose([GCur EXCEPT !.socks[s].state = "closed"]))

\* A `res` frame arrives on a socket; the server picks id and ok.  The
\* handlers of a socket the client has replaced stay attached until it closes.
RecvRes ==
  \E s \in DOMAIN socks, id \in 1..MaxReq, ok \in BOOLEAN :
    /\ socks[s].state \in {"open", "closing"}
    /\ GCommit("res", handleRes(GCur, id, ok))

\* The connect.challenge event arrives on a socket.
RecvChallenge ==
  \E s \in DOMAIN socks :
    /\ socks[s].state \in {"open", "closing"}
    /\ GCommit("challenge",
               handleEvent([GCur EXCEPT !.socks[s].challenged = TRUE],
                           "connect.challenge", Challenge))

RequestTimeout ==
  \E id \in gtimers.request :
    GCommit("request.timeout", requestTimeout(GCur, id))

ReconnectTimerFires ==
  /\ gtimers.reconnect > 0
  /\ GCommit("reconnect.timer", onReconnectTimer(GCur))

TickFires ==
  /\ gtimers.tick > 0
  /\ GCommit("tick", onTick(GCur))

NextGateway ==
  \/ Connect
  \/ DisconnectCall
  \/ SendMessage
  \/ WsOpen
  \/ WsError
  \/ WsClose
  \/ RecvRes
  \/ RecvChallenge
  \/ RequestTimeout
  \/ ReconnectTimerFires
  \/ TickFires

SpecGateway == Init /\ [][NextGateway]_vars

\* The 30 s timeout of every accepted request expires.
SpecGatewayFair == SpecGateway /\ WF_vars(RequestTimeout)

(* ------------------------- handleEvent on its own ---------------------- *)
\* One event frame of any name and payload is handled by a fresh client.
HandleEvent ==
  \E e \in Events, p \in Payloads :
    GCommit("handleEvent", handleEvent(Emit(GCur, <<"event", e, p>>), e, p))

NextEvents == HandleEvent

SpecEvents == Init /\ [][NextEvents]_vars

(* --------------------------- malformed frames -------------------------- *)
\* Texts a socket can deliver that are not a frame of the protocol: the empty
\* text onmessage puts in place of binary data, a broken JSON text, JSON
\* values that are not objects, and objects without the fields of a frame.
Raws ==
  {"", "{oops", "null", "42", "[]", "{}",
   "{\"type\":\"res\"}", "{\"type\":\"event\"}", "{\"type\":\"ping\"}"}

\* JSON.parse(raw): what it returns, or that it throws a SyntaxError.
JSONparse(raw) ==
  CASE raw \in {"", "{oops"} -> [kind |-> "SyntaxError"]
    [] raw = "null" -> [kind |-> "null"]
    [] raw = "42" -> [kind |-> "number"]
    [] raw = "[]" -> [kind |-> "array"]
    [] raw = "{}" -> [kind |-> "object", type |-> "undefined"]
    [] raw = "{\"type\":\"res\"}" -> [kind |-> "object", type |-> "res"]
    [] raw = "{\"type\":\"event\"}" -> [kind |-> "object", type |-> "event"]
    [] raw = "{\"type\":\"ping\"}" -> [kind |-> "object", type |-> "ping"]

\* The payload of an event frame that has none.
NoPayload == [role |-> "undefined", text |-> "undefined", type |-> "undefined"]

\* handleFrame (gateway.ts:49-74) for a text of Raws.  Reading a property of
\* null throws a TypeError; of a number or an array it gives undefined.  The
\* frames of Raws have no id and no event name: 0 is no registered id.
handleFrame(g, raw) ==
  LET frame == JSONparse(raw)
  IN IF frame.kind = "SyntaxError" THEN g
     ELSE IF frame.kind = "null" THEN Emit(g, <<"throw", "TypeError">>)
     ELSE IF frame.kind # "object" THEN g
     ELSE IF frame.type = "res" THEN handleRes(g, 0, FALSE)
     ELSE IF frame.type = "event" THEN handleEvent(g, "undefined", NoPayload)
     ELSE g

\* ws.onmessage with a text that is not a frame (gateway.ts:207-209).
RecvMalformed ==
  \E s \in DOMAIN socks, raw \in Raws :
    /\ socks[s].state \in {"open", "closing"}
    /\ GCommit("frame.malformed", handleFrame(Emit(GCur, <<"raw", raw>>), raw))

NextFrames == NextGateway \/ RecvMalformed

SpecFrames == Init /\ [][NextFrames]_vars

(* --------------------------- message history --------------------------- *)
MaxMessages == 60   \* addMessage calls in one run

\* Array.prototype.slice(-n): the last n elements, all of them if there are fewer.
Slice(seq, n) ==
  IF Len(seq) <= n THEN seq ELSE SubSeq(seq, Len(seq) - n + 1, Len(seq))

\* appStore.ts:58-60
addMessage(msgs, message) == Slice(msgs, 50) \o <<message>>

\* appStore.ts:61
clearMessages(msgs) == <<>>

AddMessage ==
  /\ added < MaxMessages
  /\ added' = added + 1
  /\ messages' = addMessage(messages, added + 1)
  /\ ev' = [op |-> "addMessage", out |-> <<added + 1>>]
  /\ UNCHANGED <<cvars, gvars, silenceThresholdMs>>

ClearMessages ==
  /\ messages' = clearMessages(messages)
  /\ ev' = [op |-> "clearMessages", out |-> <<>>]
  /\ UNCHANGED <<cvars, gvars, added, silenceThresholdMs>>

NextHistory == AddMessage \/ ClearMessages

SpecHistory == Init /\ [][NextHistory]_vars

(* -------------------------- silence threshold -------------------------- *)
\* The integers given to setSilenceThreshold: multiples of 50 from below zero
\* to above the upper limit, the neighbours of both limits, and large values.
ThresholdInputs ==
  {50 * k : k \in -20..120} \cup {499, 501, 4999, 5001}
    \cup {-2147483647, -1000000, 1000000, 2147483647}

Max(a, b) == IF a >= b THEN a ELSE b
Min(a, b) == IF a <= b THEN a ELSE b

\* setSilenceThreshold without the limits.
setSilenceThresholdUnclamped(ms) == ms

\* conversation.ts:89-91
setSilenceThreshold(ms) == Max(500, Min(5000, ms))

SetSilenceThreshold ==
  \E ms \in ThresholdInputs :
    /\ silenceThresholdMs' = setSilenceThreshold(ms)
    /\ ev' = [op |-> "setSilenceThreshold", out |-> <<ms>>]
    /\ UNCHANGED <<cvars, gvars, messages, added>>

NextThreshold == SetSilenceThreshold

SpecThreshold == Init /\ [][NextThreshold]_vars

(* ------------------------- reading the history ------------------------- *)
\* The last task emitted event e.
Emitted(e) == \E i \in 1..Len(ev.out) : ev.out[i] = e
\* The last task gave a ChatMessage to onNewMessage.
MessageEmitted == \E i \in 1..Len(ev.out) : ev.out[i][1] = "message"
\* Native transcriptions that were started and not asked to stop.
ActiveCaptures ==
  Cardinality({s \in DOMAIN sessions : sessions[s].state \in {"starting", "capturing"}})
    + (IF orphaned THEN 1 ELSE 0)
\* Utterances the speech engine is playing.
ActiveSyntheses == CopiesIn(Playing, tasks)

(* -------------------------------- C1 ----------------------------------- *)
\* C1: after stop() returns, whatever it interrupted, the phase is idle, no
\* timer is armed, no capture session and no synthesis session is active.
C1_StopLeavesNothing ==
  Emitted(<<"stop.returns">>) =>
    /\ phase = "idle"
    /\ TimerCount(timers) = 0
    /\ ActiveCaptures = 0
    /\ ActiveSyntheses = 0

(* -------------------------------- C2 ----------------------------------- *)
\* C2: from the moment stop() has set the phase to idle until the next
\* start(), the phase stays idle and no ChatMessage is emitted.
C2_StopIsFinal ==
  stopIdle => (phase = "idle" /\ ~MessageEmitted)

(* -------------------------------- C3 ----------------------------------- *)
\* C3: the final text of one capture session is reported, emitted as a user
\* ChatMessage and sent to the gateway at most once.
C3_FinalTextOnce ==
  \A s \in DOMAIN sessions : sessions[s].finals <= 1

(* -------------------------------- C4 ----------------------------------- *)
\* C4: at most one capture session and at most one synthesis session is
\* active, and never one of each at the same time.
C4_OneSessionAtATime ==
  /\ ActiveCaptures <= 1
  /\ ActiveSyntheses <= 1
  /\ ~(ActiveCaptures >= 1 /\ ActiveSyntheses >= 1)

(* -------------------------------- C5 ----------------------------------- *)
\* C5: while the phase is processing exactly one turn is outstanding: the
\* waiting flag is set and one chat.send was dispatched since it was last clear.
C5_OneOutstandingTurn ==
  phase = "processing" => (waiting /\ outstanding = 1)

(* -------------------------------- C6 ----------------------------------- *)
\* C6: the reply of a turn that its response timer abandoned, arriving at any
\* later time and in any phase, is ignored: the task that receives it emits
\* nothing (no ChatMessage, no utterance, no phase change).
C6_LateReplyIgnored ==
  ev.op = "reply.late" => ev.out = <<>>

(* -------------------------------- C7 ----------------------------------- *)
\* The number of events e the task emitted.
Count(out, e) == Cardinality({i \in 1..Len(out) : out[i] = e})

\* C7: interrupt() in phase speaking stops the utterance and leaves the phase
\* listening with exactly one capture session started, emitting no ChatMessage
\* and no other phase; the onStopped callback of the interrupted utterance,
\* which follows, starts nothing.
C7_InterruptWhileSpeaking ==
  [][/\ (ev'.op = "interrupt" /\ phase = "speaking") =>
          /\ phase' = "listening"
          /\ ActiveSyntheses' = 0
          /\ ~MessageEmitted'
          /\ Count(ev'.out, <<"capture.start">>) = 1
          /\ ~Emitted(<<"phase", "idle">>)'
          /\ ~Emitted(<<"phase", "processing">>)'
     /\ (ev.op = "interrupt" /\ ev'.op = "speak.stopped") => ev'.out = <<>>]_vars

(* -------------------------------- C8 ----------------------------------- *)
\* C8: interrupt() in a phase other than speaking changes nothing and calls
\* nothing: phase, timers, capture sessions, utterances and the waiting flag
\* stay as they were and the task emits no event.
C8_InterruptNoOp ==
  [][(ev'.op = "interrupt" /\ phase # "speaking") =>
       /\ UNCHANGED <<phase, activeListener, silenceTimer, lastPartialText, waiting,
                      timers, isRecording, orphaned, tasks, isSpeaking>>
       /\ sessions' = LiveSessions
       /\ ev'.out = <<>>]_vars

\* interrupt() has returned without effect while a turn was awaiting its reply
\* with the response timer armed.
C8_Witness ==
  /\ ev.op = "interrupt"
  /\ ev.out = <<>>
  /\ phase = "processing"
  /\ waiting
  /\ timers.response > 0

(* -------------------------------- C9 ----------------------------------- *)
\* C9: the order of events in a normal turn.  The silence timer firing in
\* phase listening stops the capture session; when the stop has resolved with
\* a non-empty text, the final transcript, one user ChatMessage with that text,
\* phase processing and chat.send follow in this order; the reply emits the
\* assistant ChatMessage before phase speaking; when the utterance is done and
\* no capture session is recording, the phase becomes listening and a capture
\* session is started.
C9_NormalTurnOrder ==
  [][/\ (ev'.op = "silence.timer" /\ phase = "listening" /\ activeListener # 0) =>
          (ev'.out = << <<"capture.stop">> >> /\ phase' = "listening")
     /\ (ev'.op = "silence.resumed" /\ phase = "listening" /\ MessageEmitted') =>
          \E t \in {x \in Texts : Trim(x) # ""} :
            ev'.out = << <<"transcript", t, "final">>, <<"message", "user", t>>,
                         <<"phase", "processing">>, <<"chat.send", t>> >>
     /\ (ev'.op = "reply" /\ phase = "processing" /\ waiting) =>
          \E t \in Texts :
            ev'.out = << <<"message", "assistant", t>>, <<"phase", "speaking">>, <<"speak", t>> >>
     /\ (ev'.op = "speak.done" /\ phase = "speaking" /\ ~isRecording) =>
          (ev'.out = << <<"phase", "listening">>, <<"capture.start">> >> /\ phase' = "listening")]_vars

\* A turn has run to its end: the utterance is done, the phase is listening
\* again and the next capture session is starting.
C9_Witness ==
  /\ ev.op = "speak.done"
  /\ ev.out = << <<"phase", "listening">>, <<"capture.start">> >>
  /\ phase = "listening"
  /\ ActiveCaptures = 1

(* -------------------------------- C10 ---------------------------------- *)
\* C10: when the 10 s guard of the current capture session fires in phase
\* listening and the session has delivered no partial result, no ChatMessage
\* is emitted, the phase stays listening and the capture session is restarted,
\* which begins with stopping the old one.
C10_GuardRestartsCapture ==
  [][(/\ ev'.op = "guard.timer"
      /\ phase = "listening"
      /\ silenceTimer = "guard" /\ timers.guard = 1
      /\ activeListener \in DOMAIN sessions
      /\ sessions[activeListener].state = "capturing"
      /\ sessions[activeListener].fullText = ""
      /\ lastPartialText = "") =>
       /\ ~MessageEmitted'
       /\ phase' = "listening"
       /\ Emitted(<<"capture.stop">>)']_vars

(* -------------------------------- C11 ---------------------------------- *)
\* A suspended beginListening() called from the catch block of
\* onSilenceDetected resumes in this step.
SendFailureResumes ==
  \E t \in BagToSet(tasks) :
    t.k = "capStart" /\ t.aux = "armResp" /\ CopiesIn(t, tasks') < CopiesIn(t, tasks)

\* C11: a chat.send that fails in phase processing drops the turn: the waiting
\* flag is cleared, no ChatMessage is emitted, the phase becomes listening with
\* one capture session started, and the handler arms no response timer for the
\* dropped turn, neither at once nor when its beginListening() resumes.
C11_SendFailureDropsTurn ==
  [][/\ (ev'.op = "send.rejected" /\ phase = "processing") =>
          /\ ~waiting'
          /\ ~MessageEmitted'
          /\ phase' = "listening"
          /\ Count(ev'.out, <<"capture.start">>) = 1
          /\ timers'.response <= timers.response
     /\ SendFailureResumes => timers'.response <= timers.response]_vars

(* -------------------------------- C12 ---------------------------------- *)
\* C12: a failed capture start leaves the phase idle, no capture session
\* active and no timer armed; an utterance that fails in phase speaking leaves
\* the phase listening with one capture session started.
C12_AdapterFailuresRecovered ==
  [][/\ ev'.op = "capture.start.rejected" =>
          /\ phase' = "idle"
          /\ ActiveCaptures' = 0
          /\ TimerCount(timers') = 0
     /\ (ev'.op = "speak.error" /\ phase = "speaking") =>
          /\ phase' = "listening"
          /\ Count(ev'.out, <<"capture.start">>) = 1]_vars

(* -------------------------------- C13 ---------------------------------- *)
\* C13: with timers expiring and awaited promises settling, the phase never
\* stays processing forever, also when the gateway session is torn down while
\* the turn is outstanding.
C13_ProcessingEnds ==
  (phase = "processing") ~> (phase # "processing")

(* -------------------------------- C14 ---------------------------------- *)
\* The edges of the transition table.
Edges ==
  { <<"idle", "listening">>,
    <<"listening", "processing">>, <<"listening", "idle">>,
    <<"processing", "speaking">>, <<"processing", "listening">>, <<"processing", "idle">>,
    <<"speaking", "listening">>, <<"speaking", "idle">> }

\* The phases a task went through: the one it started in, then every phase
\* it reported to onPhaseChange.
PhaseTrail(from, out) ==
  LET sel == SelectSeq(out, LAMBDA e : e[1] = "phase")
  IN <<from>> \o [i \in 1..Len(sel) |-> sel[i][2]]

\* C14: every phase change follows an edge of the transition table, and the
\* phase leaves idle only in start().
C14_TransitionTable ==
  [][LET trail == PhaseTrail(phase, ev'.out)
     IN \A i \in 1..(Len(trail) - 1) :
          /\ <<trail[i], trail[i + 1]>> \in Edges
          /\ trail[i] = "idle" => ev'.op = "start"]_vars

(* -------------------------------- C15 ---------------------------------- *)
\* How often the task called resolve or reject of the registered request id.
Settles(out, id) ==
  Cardinality({i \in 1..Len(out) : out[i][1] = "settle" /\ out[i][2] = id})

\* C15: a registered request is settled at most once.  Only a request that is
\* in the pending table is settled, and settling removes it; an id is never
\* registered again; a response or a timeout for an id that is not in the
\* table (the later of the two, a duplicate, an unknown id) settles nothing
\* and leaves the table as it was.
C15_SettledOnce ==
  [][/\ \A id \in 1..MaxReq :
          /\ Settles(ev'.out, id) <= 1
          /\ Settles(ev'.out, id) = 1 => (id \in pendingRequests /\ id \notin pendingRequests')
          /\ (id \in pendingRequests' /\ id \notin pendingRequests) => id > reqId
     /\ ev'.op \in {"res", "request.timeout"} =>
          pendingRequests \ pendingRequests' = {id \in 1..MaxReq : Settles(ev'.out, id) = 1}]_vars

\* The timeout of a request fired after its response had settled it: nothing
\* is settled, and the requests still pending stay registered.
C15_Witness ==
  /\ ev.op = "request.timeout"
  /\ ev.out = <<>>
  /\ pendingRequests # {}

(* -------------------------------- C16 ---------------------------------- *)
\* C16: once the close or the error of the channel has been handled, the
\* pending table is empty.
C16_CloseRejectsPending ==
  ev.op \in {"ws.close", "ws.error"} => pendingRequests = {}

(* -------------------------------- C17 ---------------------------------- *)
\* C17: every request send() accepted is settled eventually, also when the
\* channel closes or disconnect() is called while it is pending.
C17_EveryRequestSettles ==
  \A id \in 1..MaxReq : (id \in DOMAIN reqs) ~> (id \notin DOMAIN reqs)

(* -------------------------------- C18 ---------------------------------- *)
\* C18: never more than one reconnect timer is pending; when the close of a
\* channel has been handled exactly one is pending; when it fires, connect is
\* called with the configuration last given if the client is not connected
\* and a configuration is set, and is not called otherwise.
C18_SingleReconnect ==
  [][/\ gtimers'.reconnect <= 1
     /\ ev'.op = "ws.close" => (gtimers'.reconnect = 1 /\ reconnectTimer')
     /\ ev'.op = "reconnect.timer" =>
          /\ gtimers'.reconnect = 0
          /\ IF ~isConnected /\ config # 0
               THEN /\ Count(ev'.out, <<"connect", config>>) = 1
                    /\ config' = config
                    /\ connState' = "connecting"
               ELSE /\ ev'.out = <<>>
                    /\ UNCHANGED <<ws, socks, config>>]_vars

\* The reconnect timer has fired and connect was called again with the
\* second configuration, after a channel was closed.
C18_Witness ==
  /\ ev.op = "reconnect.timer"
  /\ Emitted(<<"connect", 2>>)
  /\ config = 2
  /\ ws # 0

(* -------------------------------- C19 ---------------------------------- *)
\* C19: no request is written to a socket that has not received the
\* connect.challenge event; the state connected is reported only in the task
\* that resolved the connect request; a connect or chat.subscribe request that
\* fails leaves the state error.
C19_Handshake ==
  /\ \A i \in 1..Len(ev.out) : ev.out[i][1] = "frame" => ev.out[i][4]
  /\ Emitted(<<"state", "connected">>) =>
       (ev.op = "res" /\ \E id \in 1..MaxReq : ev.out[1] = <<"settle", id, "resolved">>)
  /\ (\E i \in 1..Len(ev.out) :
        ev.out[i][1] = "refused" /\ ev.out[i][3] \in {"connect", "chat.subscribe"}) =>
       connState = "error"

(* -------------------------------- C20 ---------------------------------- *)
\* C20: handleEvent gives a text to the orchestrator only for a chat or
\* chat.reply event whose payload has role assistant and a non-empty text.
C20_OnlyAssistantText ==
  ev.op = "handleEvent" =>
    \A i \in 2..Len(ev.out) :
      ev.out[i][1] = "onMessage" =>
        /\ ev.out[1][2] \in {"chat", "chat.reply"}
        /\ ev.out[1][3].role = "assistant"
        /\ Truthy(ev.out[1][3].text)

(* -------------------------------- C22 ---------------------------------- *)
\* C22: the message history never holds more than 50 messages, and what it
\* holds are the most recent messages in the order they were added.
C22_HistoryBounded ==
  /\ Len(messages) <= 50
  /\ \A i \in 1..Len(messages) : messages[i] = added - Len(messages) + i

(* -------------------------------- C23 ---------------------------------- *)
\* C23: setSilenceThreshold(ms) leaves min(5000, max(500, ms)) as the
\* threshold, for every integer ms; the threshold is 1500 until it is set and
\* always lies between 500 and 5000.
C23_ThresholdClamped ==
  /\ ev.op = "setSilenceThreshold" =>
       silenceThresholdMs = Min(5000, Max(500, ev.out[1]))
  /\ ev.op = "init" => silenceThresholdMs = 1500
  /\ silenceThresholdMs >= 500
  /\ silenceThresholdMs <= 5000

\* setSilenceThreshold was given a value above the upper limit and left 5000.
C23_Witness ==
  /\ ev.op = "setSilenceThreshold"
  /\ ev.out[1] > 5000
  /\ silenceThresholdMs = 5000

(* -------------------------------- C24 ---------------------------------- *)
\* The ids a task gave to its requests, sent or refused, in order.
RequestIds(out) ==
  LET idx == {i \in 1..Len(out) : out[i][1] \in {"frame", "refused"}}
      Ids[n \in 0..Len(out)] ==
        IF n = 0 THEN <<>>
        ELSE IF n \in idx THEN Append(Ids[n - 1], out[n][2]) ELSE Ids[n - 1]
  IN Ids[Len(out)]

\* C24: every request of every method, refused ones included, gets the id
\* after the last one given: ids only grow, over reconnections and
\* disconnect() as well, and none is given twice.
C24_IdsIncrease ==
  [][LET ids == RequestIds(ev'.out)
     IN /\ \A i \in 1..Len(ids) : ids[i] = reqId + i
        /\ reqId' = reqId + Len(ids)]_vars

\* A request is refused for want of an open socket and takes an id all the
\* same; the second channel then gets a connect request with a later id.
C24_Witness ==
  /\ ev.op = "challenge"
  /\ ws = 2
  /\ \E id \in 3..MaxReq : Emitted(<<"frame", id, "connect", TRUE>>)

(* -------------------------------- C21 ---------------------------------- *)
\* C21: handling a malformed frame throws nothing and changes neither the
\* state of the client (connection state, pending table, timers) nor the
\* state of the orchestrator.
C21_MalformedDropped ==
  [][ev'.op = "frame.malformed" =>
       /\ Len(ev'.out) = 1
       /\ UNCHANGED <<gvars, cvars>>]_vars

(* -------------------------------- C25 ---------------------------------- *)
\* C25: a response timer that fires after the reply of its turn has cleared
\* the waiting flag does nothing: the phase and the waiting flag stay as they
\* are, no capture session is started or stopped and nothing is emitted, in
\* any phase.
C25_AnsweredTimerNoOp ==
  [][(ev'.op = "response.timer" /\ track'.ans < track.ans) =>
       /\ UNCHANGED <<phase, waiting, activeListener, isRecording>>
       /\ ev'.out = <<>>]_vars

(* -------------------------------- C26 ---------------------------------- *)
\* C26: whenever the phase is processing, a response timer armed for the
\* turn outstanding is pending.
C26_ProcessingHasTimer ==
  phase = "processing" => track.cur >= 1

(* -------------------------------- C27 ---------------------------------- *)
\* C27: at most one guard-or-silence timer and at most one response timer
\* are pending at any time.
C27_OneTimerOfEachKind ==
  /\ timers.guard + timers.silence <= 1
  /\ timers.response <= 1

(* -------------------------------- C28 ---------------------------------- *)
\* C28: once a partial text has been observed in a capture session, the 10 s
\* guard armed for that session is not pending any more, so it cannot fire.
C28_PartialDisarmsGuard ==
  \A s \in DOMAIN sessions : sessions[s].fullText # "" => sessions[s].guard = "none"

(* -------------------------------- C29 ---------------------------------- *)
\* C29: the tick interval runs only while the client is connected and has
\* reported the state connected; when the close or the error of a socket has
\* been handled the interval is cancelled and the state reported is
\* disconnected or error; never more than one interval runs.
C29_KeepaliveOnlyConnected ==
  /\ tickTimer => (isConnected /\ connState = "connected")
  /\ ev.op \in {"ws.close", "ws.error"} =>
       (~tickTimer /\ connState \in {"disconnected", "error"})
  /\ gtimers.tick <= 1
  /\ tickTimer <=> gtimers.tick = 1

(* -------------------------------- C30 ---------------------------------- *)
\* The close or the error of a socket that connect() has replaced is being
\* handled: the socket _ws refers to is not the one the event is about.
SupersededEvent ==
  /\ ev'.op \in {"ws.close", "ws.error"}
  /\ ws # 0
  /\ ws' = ws
  /\ socks'[ws] = socks[ws]

\* C30: the close or the error of a replaced socket leaves the session on the
\* new socket alone: _isConnected, the tick interval, the state reported and
\* the reconnect timer stay as they are.
C30_OldChannelIgnored ==
  [][SupersededEvent =>
       /\ UNCHANGED <<isConnected, tickTimer, connState, reconnectTimer, gtimers>>
       /\ ev'.out = <<>>]_vars

(* -------------------------------- C31 ---------------------------------- *)
\* C31: isConnected() is true exactly when the state last given to the state
\* callback is connected.
C31_FlagAgreesWithState ==
  isConnected <=> connState = "connected"

(* -------------------------------- C32 ---------------------------------- *)
\* C32: from disconnect() until the next connect() (the configuration is
\* null) there is no socket _ws refers to, no socket open or being opened,
\* no tick interval and no pending registration, and no task calls connect
\* or creates a socket, the close handler of the closing socket and the
\* reconnect timer it schedules included.
C32_DisconnectIsQuiet ==
  [][config' = 0 =>
       /\ ws' = 0
       /\ \A s \in DOMAIN socks' : socks'[s].state \notin {"connecting", "open"}
       /\ ~tickTimer' /\ gtimers'.tick = 0
       /\ pendingRequests' = {}
       /\ ~isConnected'
       /\ \A i \in 1..Len(ev'.out) : ev'.out[i][1] # "connect"
       /\ DOMAIN socks' \subseteq DOMAIN socks]_vars

\* After disconnect() the reconnect timer that the close handler of the
\* closing socket scheduled has fired and has done nothing.
C32_Witness ==
  /\ ev.op = "reconnect.timer"
  /\ config = 0
  /\ ev.out = <<>>
  /\ ws = 0

(* -------------------------------- C33 ---------------------------------- *)
\* C33: the waiting flag is set only while the phase is processing, so a
\* reply event taken in any other phase emits nothing and leaves the phase.
C33_WaitingOnlyProcessing ==
  [][/\ waiting' => phase' = "processing"
     /\ (ev'.op \in {"reply", "reply.late"} /\ phase # "processing") =>
          (ev'.out = <<>> /\ phase' = phase)]_vars

(* -------------------------------- C35 ---------------------------------- *)
\* C35: when a capture start has failed the recording flag of the adapter is
\* false, and the flag is true only while a native transcription is
\* starting, capturing or draining.
C35_FailedStartClearsFlag ==
  /\ ev.op = "capture.start.rejected" => ~isRecording
  /\ isRecording =>
       (orphaned \/ \E s \in DOMAIN sessions : sessions[s].state # "stopped")

\* C34: in every reachable state the assistant ChatMessages emitted so far
\* are at most as many as the user ChatMessages emitted so far, whatever
\* reply events the gateway sends (duplicate, unsolicited and late ones
\* included); while a reply is awaited at least one user message is still
\* unanswered.
C34_RepliesAnswerTurns ==
  /\ owed >= 0
  /\ waiting => owed >= 1
\* A reply event has just been ignored while the answer to the only
\* unanswered user message is being spoken.
C34_Witness ==
  /\ ev.op \in {"reply", "reply.late"} /\ ev.out = <<>>
  /\ owed = 0 /\ phase = "speaking" /\ isSpeaking

====
